---------------------------- MODULE Spec2Model ----------------------------
(***************************************************************************)
(* A model of parts of rbdc (litcc/rbatis-rbdc):                           *)
(*   - the MySQL text-row decoder   rbdc-mysql/src/protocol/text/row.rs    *)
(*   - the MySQL binary DATETIME / TIMESTAMP codec                         *)
(*                                   rbdc-mysql/src/types/datetime.rs      *)
(*                                   rbdc-mysql/src/types/timestamp.rs     *)
(*   - the connection guard          src/pool/guard.rs                     *)
(*   - the SQLite handle lock, the statement cache and the worker's life   *)
(*     cycle                         rbdc-sqlite/src/connection/mod.rs     *)
(*   - the Decimal value             src/types/decimal.rs                  *)
(*                                                                         *)
(* Each part has its own specification (SpecRow, SpecTemporal, SpecGuard,  *)
(* SpecLock, SpecStmt, SpecLife, SpecDecimal); the variables of the other  *)
(* parts stay at their idle values.                                        *)
(* Bytes are integers 0..255, buffers are sequences of bytes, and a        *)
(* position in a buffer is the number of bytes in front of it.             *)
(***************************************************************************)
EXTENDS Integers, Sequences, FiniteSets, TLC

VARIABLES
    rowIn,      \* text row: the input of TextRow::decode_with (buf, columns)
    rowOut,     \* text row: its result, or Pending before the call
    tIn,        \* temporal codec: the value to encode, or "raw" for a received value
    tEnc,       \* temporal codec: the output buffer and the size encode returned
    wire,       \* temporal codec: the bytes of the value as they go on the wire
    tDec,       \* temporal codec: the result of decoding wire
    poolCfg,    \* pool: max_open and auto_close (0 is None, d > 0 is Some(d))
    live_count, \* pool: the connections the pool counts as open
    guards,     \* per connection: its ConnectionGuard (conn, auto_close)
    conns,      \* per connection: where it is and how often close() was called
    tasks,      \* per connection: the close task spawned for it
    mutex,      \* sqlite: the mutex around ConnectionState (owner, waiters)
    worker,     \* sqlite: the worker thread (pc, commands done)
    chan,       \* sqlite: the command channel
    caller,     \* sqlite: the task calling lock_handle (pc, handle)
    sent,       \* sqlite: the commands put on the channel so far
    cstate,     \* sqlite: a ConnectionState (handle, statements) and its calls
    life,       \* sqlite: the worker's life cycle and the calls made on it
    dec         \* decimal: a conversion between Decimal and Value

rowVars  == <<rowIn, rowOut>>
tmpVars  == <<tIn, tEnc, wire, tDec>>
poolVars == <<poolCfg, live_count, guards, conns, tasks>>
lockVars == <<mutex, worker, chan, caller, sent>>
baseVars == <<rowVars, tmpVars, poolVars, lockVars>>

vars == <<rowIn, rowOut, tIn, tEnc, wire, tDec,
          poolCfg, live_count, guards, conns, tasks,
          mutex, worker, chan, caller, sent,
          cstate, life, dec>>

(***************************************************************************)
(* Helpers on byte buffers.                                                *)
(***************************************************************************)
\* Buf::get_uint_le(n) at position pos: n bytes, little endian.
RECURSIVE UintLE(_, _, _)
UintLE(buf, pos, n) ==
    IF n = 0 THEN 0
    ELSE buf[pos + 1] + 256 * UintLE(buf, pos + 1, n - 1)

\* the n little-endian bytes of v
RECURSIVE ToLE(_, _)
ToLE(v, n) ==
    IF n = 0 THEN <<>>
    ELSE <<v % 256>> \o ToLE(v \div 256, n - 1)

\* all sequences over S of length at most n
RECURSIVE SeqsOfLen(_, _)
SeqsOfLen(S, n) ==
    IF n = 0 THEN {<<>>}
    ELSE {Append(s, x) : s \in SeqsOfLen(S, n - 1), x \in S}

SeqsUpTo(S, n) == UNION {SeqsOfLen(S, k) : k \in 0..n}

\* Vec::remove(idx): idx is 0-based
VecRemove(buf, idx) ==
    SubSeq(buf, 1, idx) \o SubSeq(buf, idx + 2, Len(buf))

(***************************************************************************)
(* MySQL text row: TextRow::decode_with.                                   *)
(***************************************************************************)
NullMarker == 251       \* 0xfb
LenencU16  == 252       \* 0xfc
LenencU24  == 253       \* 0xfd
LenencU64  == 254       \* 0xfe

\* MySqlBufExt::get_uint_lenenc at position pos.  The function returns a bare
\* integer, so a prefix cut short by the end of the buffer cannot be reported
\* as an error: the cursor read panics (ok = FALSE).
get_uint_lenenc(buf, pos) ==
    LET b    == buf[pos + 1]
        more == IF b = LenencU16 THEN 2
                ELSE IF b = LenencU24 THEN 3
                ELSE IF b = LenencU64 THEN 8
                ELSE 0
    IN  IF pos >= Len(buf) \/ pos + 1 + more > Len(buf)
        THEN [ok |-> FALSE, val |-> 0, next |-> pos]
        ELSE [ok   |-> TRUE,
              val  |-> IF more = 0 THEN b ELSE UintLE(buf, pos + 1, more),
              next |-> pos + 1 + more]

NoneCell == [null |-> TRUE, start |-> 0, end |-> 0]
SomeCell(a, b) == [null |-> FALSE, start |-> a, end |-> b]

RowOk(values, storage) ==
    [kind |-> "Ok", values |-> values, storage |-> storage,
     size |-> 0, remaining |-> 0, first |-> 0, site |-> "none"]
RowProtocol(size, remaining, first) ==
    [kind |-> "Protocol", values |-> <<>>, storage |-> <<>>,
     size |-> size, remaining |-> remaining, first |-> first, site |-> "none"]
RowPanic(site) ==
    [kind |-> "Panic", values |-> <<>>, storage |-> <<>>,
     size |-> 0, remaining |-> 0, first |-> 0, site |-> site]

\* a plausible slip: the offset taken before the length prefix is consumed
CellOffsetBeforePrefix(posBefore, posAfter) == posBefore

\* `offset - buf.len()` after get_uint_lenenc: the position behind the prefix
CellOffset(posBefore, posAfter) == posAfter

\* the body of `for _ in columns`: pos bytes are consumed, k columns are left
\* a plausible slip: the byte at which the column starts
DiagnosticAtColumnStart(posBefore, offset) == posBefore

\* the index of the byte the error message shows: `storage[offset]`
DiagnosticAt(posBefore, offset) == offset

RECURSIVE DecodeColumns(_, _, _, _)
DecodeColumns(storage, pos, k, values) ==
    IF k = 0 THEN RowOk(values, storage)
    ELSE IF pos >= Len(storage) THEN RowPanic("buf[0]")
    ELSE IF storage[pos + 1] = NullMarker
         THEN DecodeColumns(storage, pos + 1, k - 1, Append(values, NoneCell))
    ELSE LET r == get_uint_lenenc(storage, pos)
         IN  IF ~r.ok THEN RowPanic("get_uint_lenenc")
             ELSE LET size      == r.val
                      remaining == Len(storage) - r.next
                      offset    == CellOffset(pos, r.next)
                  IN  IF size > remaining
                      THEN \* the message formats storage[offset]
                           LET at == DiagnosticAt(pos, offset)
                           IN  IF at >= Len(storage)
                               THEN RowPanic("storage[offset]")
                               ELSE RowProtocol(size, remaining, storage[at + 1])
                      ELSE DecodeColumns(storage, r.next + size, k - 1,
                                         Append(values, SomeCell(offset, offset + size)))

decode_with(buf, ncols) == DecodeColumns(buf, 0, ncols, <<>>)


(***************************************************************************)
(* MySQL binary DATETIME / TIMESTAMP codec.                                *)
(* A broken-down datetime is a record of its components; fastdate's        *)
(* accessors (year(), mon(), ..., nano()) read them.                       *)
(***************************************************************************)
DT(y, mo, d, h, mi, s, ns) ==
    [year |-> y, mon |-> mo, day |-> d, hour |-> h, minute |-> mi, sec |-> s, nano |-> ns]

ZeroDT == DT(0, 0, 0, 0, 0, 0, 0)

\* a plausible slip: a zero time with a zero nanosecond classified as 7
SizeHintNeverDateOnly(hour, min, sec, nano) == IF nano = 0 THEN 7 ELSE 11

\* date_time_size_hint (the same function in datetime.rs and timestamp.rs)
date_time_size_hint(hour, min, sec, nano) ==
    IF hour = 0 /\ min = 0 /\ sec = 0 /\ nano = 0 THEN 4
    ELSE IF nano = 0 THEN 7
    ELSE 11

\* impl Encode for Date (types/date.rs): pushes its own length byte 4, the
\* year as u16 LE, the month and the day, and returns 4.
DateEncode(dt, buf) ==
    [buf  |-> buf \o <<4>> \o ToLE(dt.year % 65536, 2) \o <<dt.mon, dt.day>>,
     size |-> 4]

\* impl Encode for fastdate::Time (types/time.rs): the MySQL TIME value:
\* length 8 or 12, a sign byte, four bytes of days, hour, minute, second and,
\* with a nonzero sub-second, the microseconds as u32 LE; returns the length.
TimeEncode(dt, buf) ==
    LET len == IF dt.nano = 0 THEN 8 ELSE 12
    IN  [buf  |-> buf \o <<len, 0, 0, 0, 0, 0, dt.hour, dt.minute, dt.sec>>
                      \o (IF len > 8 THEN ToLE(dt.nano \div 1000, 4) ELSE <<>>),
         size |-> len]

RECURSIVE RemoveTimes(_, _, _)
RemoveTimes(buf, idx, n) ==
    IF n = 0 THEN buf ELSE RemoveTimes(VecRemove(buf, idx), idx, n - 1)

\* a plausible slip: the length Time::encode returned added to the size
TimeSizeAddedEncodeLen(before_len, after_len, encode_len) == encode_len

\* `size += after_len - before_len`: what the time part left in the buffer
TimeSizeAdded(before_len, after_len, encode_len) == after_len - before_len

\* impl Encode for DateTime
DateTimeEncode(dt, buf0) ==
    LET datetime_size == date_time_size_hint(dt.hour, dt.minute, dt.sec, dt.nano)
        buf1 == Append(buf0, datetime_size % 256)
        d    == DateEncode(dt, buf1)
        buf2 == VecRemove(d.buf, Len(d.buf) - (d.size + 1))
    IN  IF datetime_size > 4
        THEN LET before_len == Len(buf2)
                 t          == TimeEncode(dt, buf2)
                 buf3       == IF t.size > 6 THEN RemoveTimes(t.buf, before_len, 6)
                               ELSE t.buf
             IN  [buf  |-> buf3,
                  size |-> 1 + d.size
                             + TimeSizeAdded(before_len, Len(buf3), t.size)]
        ELSE [buf |-> buf2, size |-> 1 + d.size]

\* fastdate::DateTime::from_timestamp_millis: the UTC calendar date and time
\* of a Unix millisecond count (days since 1970-01-01 to year, month, day).
CivilFromDays(days) ==
    LET z   == days + 719468
        era == z \div 146097
        doe == z - era * 146097
        yoe == (doe - doe \div 1460 + doe \div 36524 - doe \div 146096) \div 365
        doy == doe - (365 * yoe + yoe \div 4 - yoe \div 100)
        mp  == (5 * doy + 2) \div 153
        d   == doy - (153 * mp + 2) \div 5 + 1
        m   == IF mp < 10 THEN mp + 3 ELSE mp - 9
        y   == yoe + era * 400 + (IF m <= 2 THEN 1 ELSE 0)
    IN  [year |-> y, mon |-> m, day |-> d]

\* A Unix millisecond count t is kept as [days, ms] with
\* t = days * 86 400 000 + ms and 0 <= ms < 86 400 000: the count itself does
\* not fit the 32-bit integers of the model checker.
Millis(days, ms) == [days |-> days, ms |-> ms]

from_timestamp_millis(t) ==
    LET date == CivilFromDays(t.days)
        rem  == t.ms
    IN  DT(date.year, date.mon, date.day,
           rem \div 3600000, (rem \div 60000) % 60, (rem \div 1000) % 60,
           (rem % 1000) * 1000000)

\* fastdate::DateTime::unix_timestamp_millis of a broken-down UTC datetime
DaysFromCivil(y0, m, d) ==
    LET y   == IF m <= 2 THEN y0 - 1 ELSE y0
        era == y \div 400
        yoe == y - era * 400
        doy == (153 * (IF m > 2 THEN m - 3 ELSE m + 9) + 2) \div 5 + d - 1
        doe == yoe * 365 + yoe \div 4 - yoe \div 100 + doy
    IN  era * 146097 + doe - 719468

unix_timestamp_millis(dt) ==
    Millis(DaysFromCivil(dt.year, dt.mon, dt.day),
           dt.hour * 3600000 + dt.minute * 60000 + dt.sec * 1000
               + dt.nano \div 1000000)

\* impl Encode for Timestamp, behind the conversion to a broken-down datetime
TimestampEncodeDateTime(dt, buf0) ==
    LET hint      == date_time_size_hint(dt.hour, dt.minute, dt.sec, dt.nano)
        buf1      == Append(buf0, hint % 256)
        d         == DateEncode(dt, buf1)
        size_date == d.size
        buf2      == VecRemove(d.buf, Len(d.buf) - 1 - size_date)
    IN  IF hint + size_date > 4
        THEN LET t         == TimeEncode(dt, buf2)
                 size_time == t.size
                 buf3      == VecRemove(t.buf, Len(t.buf) - 1 - size_time)
             IN  [buf |-> buf3, size |-> hint + size_date + size_time]
        ELSE [buf |-> buf2, size |-> hint + size_date]

\* impl Encode for Timestamp
TimestampEncode(ts, buf0) ==
    CHOOSE r \in {TimestampEncodeDateTime(dt, buf0) : dt \in {from_timestamp_millis(ts)}} :
        TRUE

\* ---- decoding ----
TmpResult(kind, dt, read, site) ==
    [kind |-> kind, ty |-> "none", dt |-> dt, millis |-> Millis(0, 0),
     read |-> read, site |-> site]

TmpPending == TmpResult("Pending", ZeroDT, 0, "none")

\* decode_date_buf (types/date.rs): an empty buffer is the zero date and is
\* not read; otherwise year u16 LE, month, day are read from four bytes.
\* shortRead is what a buffer of one to three bytes ends in: "Panic" (an
\* index out of range) or "Err" (a checked read, spec 4.B).
decode_date_buf(buf, shortRead) ==
    IF buf = <<>> THEN TmpResult("Ok", ZeroDT, 0, "none")
    ELSE IF Len(buf) < 4 THEN TmpResult(shortRead, ZeroDT, 0, "decode_date_buf")
    ELSE TmpResult("Ok", DT(UintLE(buf, 0, 2), buf[3], buf[4], 0, 0, 0, 0), 4, "none")

\* the largest micros for which micros * 1000 fits a u32 (4294967295 / 1000)
MaxMicrosU32 == 4294967

\* decode_time (types/time.rs): hour, minute, second, then the microseconds
\* from whatever bytes are left (Buf::get_uint_le takes at most 8).  It
\* returns a Time, not a Result.  `micros as u32` keeps the low four bytes;
\* `* 1000` overflows u32 for micros > 4294967: a panic in a checked build,
\* else a wrapped nanosecond (kind "Wrapped": a value, its nano not tracked).
decode_time(buf, checked) ==
    LET rest   == Len(buf) - 3
        low    == IF rest <= 0 THEN 0
                  ELSE UintLE(buf, 3, IF rest < 3 THEN rest ELSE 3)
        top    == IF rest >= 4 THEN buf[7] ELSE 0
        over   == top > 0 \/ low > MaxMicrosU32
    IN  IF Len(buf) < 3 THEN TmpResult("Panic", ZeroDT, 0, "get_u8")
        ELSE IF rest > 8 THEN TmpResult("Panic", ZeroDT, 0, "get_uint_le")
        ELSE IF over
             THEN IF checked THEN TmpResult("Panic", ZeroDT, 0, "overflow")
                  ELSE TmpResult("Wrapped", DT(0, 0, 0, buf[1], buf[2], buf[3], 0),
                                 Len(buf), "overflow")
        ELSE TmpResult("Ok", DT(0, 0, 0, buf[1], buf[2], buf[3], low * 1000),
                       Len(buf), "none")

\* a plausible slip: the time read only when the microseconds are there
HasTimeOnlyWithMicros(len) == len > 7

\* `if len > 4`
HasTime(len) == len > 4

\* a plausible slip: the date read from the length byte on
DatePartWithLength(buf) == buf

\* `&buf[1..]`
DatePart(buf) == SubSeq(buf, 2, Len(buf))

\* the Binary branch of Decode for DateTime and for Timestamp, up to the
\* conversion of (date, time) by fastdate
DecodeBinaryParts(buf, checked, shortRead) ==
    IF buf = <<>> THEN TmpResult("Panic", ZeroDT, 0, "buf[0]")
    ELSE LET len  == buf[1]
             date == decode_date_buf(DatePart(buf), shortRead)
         IN  IF date.kind # "Ok" THEN date
             ELSE IF HasTime(len)
             THEN IF Len(buf) < 5 THEN TmpResult("Panic", ZeroDT, 0, "buf[5..]")
                  ELSE LET time == decode_time(SubSeq(buf, 6, Len(buf)), checked)
                       IN  IF time.kind = "Panic" THEN time
                           ELSE TmpResult(time.kind,
                                    DT(date.dt.year, date.dt.mon, date.dt.day,
                                       time.dt.hour, time.dt.minute, time.dt.sec,
                                       time.dt.nano),
                                    date.read + time.read, time.site)
             ELSE TmpResult("Ok", date.dt, date.read, "none")

\* impl Decode for DateTime, MySqlValueFormat::Binary: the value holds the
\* components handed to fastdate::DateTime::from((date, time, offset))
DateTimeDecodeBinary(buf, checked, shortRead) ==
    [DecodeBinaryParts(buf, checked, shortRead) EXCEPT !.ty = "datetime"]

\* impl Decode for Timestamp, MySqlValueFormat::Binary
TimestampDecodeBinary(buf, checked, shortRead) ==
    LET r == DecodeBinaryParts(buf, checked, shortRead)
    IN  [r EXCEPT !.ty = "timestamp",
                  !.millis = IF r.kind \in {"Ok", "Wrapped"}
                             THEN unix_timestamp_millis(r.dt) ELSE Millis(0, 0)]

\* ---- inputs ----
MaxPre     == 1
MaxPayload == 11
PreBytes   == {4, 9}
RawLengths == {0, 3, 4, 5, 7, 8, 11, 12}

\* the bytes tried at payload position i (1-based) of a received value
PayloadBytesAt(i) ==
    CASE i = 1  -> {1, 232}
      [] i = 2  -> {7}
      [] i = 3  -> {1, 12}
      [] i = 4  -> {2, 31}
      [] i = 5  -> {3, 23}
      [] i = 6  -> {4}
      [] i = 7  -> {5}
      [] i = 8  -> {6, 255}
      [] i = 9  -> {0, 1}
      [] i = 10 -> {0, 15}
      [] i = 11 -> {0, 1}
      [] OTHER  -> {0}

RECURSIVE PayloadsOfLen(_)
PayloadsOfLen(n) ==
    IF n = 0 THEN {<<>>}
    ELSE {Append(s, x) : s \in PayloadsOfLen(n - 1), x \in PayloadBytesAt(n)}

Payloads(n) == UNION {PayloadsOfLen(k) : k \in 0..n}

DTInputs ==
    {DT(y, mo, d, h, mi, s, ns) :
        y \in {1970, 2024, 9999}, mo \in {1, 12}, d \in {2, 31},
        h \in {0, 3, 23}, mi \in {0, 4, 59}, s \in {0, 5},
        ns \in {0, 1, 6000, 999999999}}

TSInputs ==
    {Millis(day, h * 3600000 + mi * 60000 + s * 1000 + ms) :
        day \in {0, 1, 59, 11016, 19724},
        h \in {0, 3, 23}, mi \in {0, 4}, s \in {0, 5}, ms \in {0, 6, 999}}

RawWires ==
    {<<>>} \cup {<<l>> \o pl : l \in RawLengths, pl \in Payloads(MaxPayload)}

NotEncoded == [done |-> FALSE, buf |-> <<>>, size |-> 0]

TemporalIdle ==
    /\ tIn = [op |-> "idle", dt |-> ZeroDT, ms |-> Millis(0, 0), pre |-> <<>>]
    /\ tEnc = NotEncoded
    /\ wire = <<>>
    /\ tDec = TmpPending

(***************************************************************************)
(* The connection guard: src/pool/guard.rs.                                *)
(* Time is counted in ticks; a close task's timer runs from the first poll *)
(* of the task, which is when tokio::time::timeout(d, conn.close()) is     *)
(* evaluated.                                                              *)
(***************************************************************************)
MaxConns   == 2
MaxTimeout == 2
Conns      == 1..MaxConns

\* struct ConnectionGuard { conn, manager_proxy, auto_close }
NoGuard == [state |-> "none", conn |-> FALSE, auto_close |-> 0]
NewGuard(auto) == [state |-> "live", conn |-> TRUE, auto_close |-> auto]

NoTask == [state |-> "none", timeout |-> 0, elapsed |-> 0, closeStartedAt |-> 0]
NoConn == [loc |-> "none", closeCalls |-> 0, closed |-> FALSE]

\* a plausible slip: the connection is closed on every drop
GuardDropAlwaysCloses(g) ==
    [conn |-> FALSE, spawn |-> g.conn, timeout |-> g.auto_close]

\* impl Drop for ConnectionGuard: with auto_close = Some(d) and a connection
\* in the guard, the connection is taken and a task is spawned for it; else
\* the body does nothing and the connection stays in the guard, whose fields
\* are destroyed with it.
GuardDrop(g) ==
    IF g.auto_close # 0 /\ g.conn
    THEN [conn |-> FALSE, spawn |-> TRUE, timeout |-> g.auto_close]
    ELSE [conn |-> g.conn, spawn |-> FALSE, timeout |-> 0]

\* a plausible slip: the close awaited without a timeout
CloseTaskWithoutTimeout(t, c, d) ==
    [task |-> [t EXCEPT !.state = "awaiting", !.timeout = 0, !.elapsed = 0],
     conn |-> [c EXCEPT !.closeCalls = @ + 1]]

\* a plausible slip: the task only waits for the duration
CloseTaskSleepsOnly(t, c, d) ==
    [task |-> [t EXCEPT !.state = "running", !.timeout = d, !.elapsed = 0],
     conn |-> c]

\* the first poll of `async move { timeout(auto_close, conn.close()).await }`:
\* close() is called once, the timer is armed, and Timeout polls the close
\* future before it looks at the timer.
CloseTaskFirstPoll(t, c, d) ==
    [task |-> [t EXCEPT !.state = "running", !.timeout = d, !.elapsed = 0,
                        !.closeStartedAt = 0],
     conn |-> [c EXCEPT !.closeCalls = @ + 1]]

\* a plausible slip: a discarded connection stays counted
PoolDiscardKeepsCount(live) == live

\* the pool's count when a connection leaves it for good (spec 4.F)
PoolDiscard(live) == live - 1

\* the pool's count when it opens a connection (spec 4.F)
PoolOpen(live) == live + 1

PoolIdle ==
    /\ poolCfg = [max_open |-> 0, auto_close |-> 0]
    /\ live_count = 0
    /\ guards = [c \in Conns |-> NoGuard]
    /\ conns = [c \in Conns |-> NoConn]
    /\ tasks = [c \in Conns |-> NoTask]

(***************************************************************************)
(* The SQLite handle lock: SqliteConnection::lock_handle and the worker    *)
(* thread behind it (connection/worker.rs, spec 4.E).  The worker owns the *)
(* mutex around ConnectionState while it waits for and executes commands;  *)
(* UnlockDb makes it give the mutex up and ask for it again.  The mutex is *)
(* fair: a release hands it to the longest waiter.                         *)
(***************************************************************************)
MaxQueue == 2       \* capacity of the command channel
MaxCmds  == 2       \* commands other than UnlockDb that are sent in a run
MaxLocks == 2       \* calls of lock_handle in a run

\* Mutex::lock by who: taken at once when free, else who joins the queue
MutexLock(m, who) ==
    IF m.owner = "none" THEN [m EXCEPT !.owner = who]
    ELSE [m EXCEPT !.waiters = Append(@, who)]

\* dropping the MutexGuard: the longest waiter, if any, becomes the owner
MutexUnlock(m) ==
    IF m.waiters = <<>> THEN [m EXCEPT !.owner = "none"]
    ELSE [owner |-> Head(m.waiters), waiters |-> Tail(m.waiters)]

\* a plausible slip: the handle handed out once UnlockDb is sent, without
\* waiting for the guard
HandleWithoutGuard(c, m) == c.pc = "awaiting"

\* lock_handle: `let guard = self.worker.unlock_db().await?;` then
\* `Ok(LockedSqliteHandle { guard })`: the handle exists once the guard does
HandleReady(c, m) == c.pc = "awaiting" /\ m.owner = "caller"

LockIdle ==
    /\ mutex = [owner |-> "none", waiters |-> <<>>]
    /\ worker = [pc |-> "off", done |-> 0]
    /\ chan = <<>>
    /\ caller = [pc |-> "off", locks |-> 0, ffi |-> 0]
    /\ sent = 0


(***************************************************************************)
(* The statement cache of a SQLite connection: struct Statements and       *)
(* ConnectionState in rbdc-sqlite/src/connection/mod.rs.  rbdc's           *)
(* StatementCache is an LRU map from SQL text to statement; here it is the *)
(* sequence of its entries, least recently used first.                     *)
(***************************************************************************)
MaxCap     == 2     \* largest statement_cache_capacity tried
MaxQueries == 3     \* distinct SQL strings
MaxGets    == 4     \* calls of Statements::get in a run
Queries    == 1..MaxQueries

\* a VirtualStatement: its SQL, an identity, and whether it has been stepped
\* since it was prepared or last reset
NewStatement(query, persistent, id) ==
    [query |-> query, id |-> id, persistent |-> persistent, stepped |-> FALSE]

\* VirtualStatement::reset
StatementReset(stmt) == [stmt EXCEPT !.stepped = FALSE]

CacheKeys(cached) == {cached[i].query : i \in 1..Len(cached)}
CacheIds(entries) == {entries[i].id : i \in 1..Len(entries)}

\* StatementCache::is_enabled
CacheIsEnabled(capacity) == capacity > 0

\* StatementCache::contains_key: does not count as a use
CacheContainsKey(cached, query) == query \in CacheKeys(cached)

CacheWithout(cached, query) == SelectSeq(cached, LAMBDA e : e.query # query)

\* StatementCache::insert: the least recently used entry makes room when
\* the cache is full, an entry under the same key is replaced, and the new
\* entry is the most recently used; the map never holds more than capacity
CacheInsert(cached, capacity, stmt) ==
    LET room == IF Len(cached) = capacity /\ ~CacheContainsKey(cached, stmt.query)
                   /\ cached # <<>>
                THEN Tail(cached)
                ELSE CacheWithout(cached, stmt.query)
        all  == Append(room, stmt)
    IN  IF Len(all) > capacity
        THEN SubSeq(all, Len(all) - capacity + 1, Len(all))
        ELSE all

\* a plausible slip: a lookup that does not count as a use (peek_mut)
CacheLookupWithoutUse(cached, query) == cached

\* `self.cached.get_mut(query)`: the entry becomes the most recently used
CacheLookup(cached, query) ==
    CacheWithout(cached, query)
        \o SelectSeq(cached, LAMBDA e : e.query = query)

\* a plausible slip: the scratch slot only when both conditions hold
UsesScratchOnlyIfBoth(persistent, enabled) == ~persistent /\ ~enabled

\* `if !persistent || !self.cached.is_enabled()`
UsesScratch(persistent, enabled) == ~persistent \/ ~enabled

\* a plausible slip: the reset left out
ResetNever(exists) == FALSE

\* `if exists { statement.reset()?; }`
NeedsReset(exists) == exists

\* a plausible slip: the scratch slot emptied before the new statement is made
ScratchTakenOnFailedNew(temp) == <<>>

\* `self.temp.insert(VirtualStatement::new(query, false)?)`: the argument is
\* evaluated first and `?` returns before insert runs; the slot is untouched
ScratchOnFailedNew(temp) == temp

NoGet ==
    [kind |-> "none", ok |-> FALSE, query |-> 0, persistent |-> FALSE,
     id |-> 0, reset |-> FALSE, created |-> FALSE, stepped |-> FALSE]
GetResult(kind, ok, query, persistent, id, reset, created, stepped) ==
    [kind |-> kind, ok |-> ok, query |-> query, persistent |-> persistent,
     id |-> id, reset |-> reset, created |-> created, stepped |-> stepped]

\* Statements::get(query, persistent) on st = [cached, temp, capacity]; id is
\* the identity of the statement VirtualStatement::new would create, newOk
\* and resetOk say whether VirtualStatement::new and reset succeed.  The
\* result is the new Statements, the call's result and the statements the
\* call dropped.
StatementsGet(st, query, persistent, id, newOk, resetOk) ==
    IF UsesScratch(persistent, CacheIsEnabled(st.capacity))
    THEN IF ~newOk
         THEN [st |-> [st EXCEPT !.temp = ScratchOnFailedNew(@)],
               dropped |-> CacheIds(st.temp)
                              \ CacheIds(ScratchOnFailedNew(st.temp)),
               res |-> GetResult("temp", FALSE, query, persistent, 0,
                                 FALSE, FALSE, FALSE)]
         ELSE [st |-> [st EXCEPT !.temp = <<NewStatement(query, FALSE, id)>>],
               dropped |-> CacheIds(st.temp),
               res |-> GetResult("temp", TRUE, query, persistent, id,
                                 FALSE, TRUE, FALSE)]
    ELSE LET exists == CacheContainsKey(st.cached, query)
         IN  IF ~exists /\ ~newOk
             THEN [st |-> st, dropped |-> {},
                   res |-> GetResult("miss", FALSE, query, persistent, 0,
                                     FALSE, FALSE, FALSE)]
             ELSE LET ins == IF exists THEN st.cached
                             ELSE CacheInsert(st.cached, st.capacity,
                                              NewStatement(query, TRUE, id))
                      gone == CacheIds(st.cached) \ CacheIds(ins)
                  IN  IF ~CacheContainsKey(ins, query)
                      THEN \* `.unwrap()` of None
                           [st |-> [st EXCEPT !.cached = ins],
                            dropped |-> gone \cup {id},
                            res |-> GetResult("panic", FALSE, query, persistent,
                                              0, FALSE, TRUE, FALSE)]
                      ELSE LET used  == CacheLookup(ins, query)
                               found == CHOOSE i \in 1..Len(used) :
                                            used[i].query = query
                               stmt  == used[found]
                               doReset == NeedsReset(exists)
                               after == IF doReset /\ resetOk
                                        THEN StatementReset(stmt) ELSE stmt
                           IN  [st |-> [st EXCEPT !.cached =
                                           [used EXCEPT ![found] = after]],
                                dropped |-> gone,
                                res |-> GetResult(
                                           IF exists THEN "hit" ELSE "miss",
                                           ~doReset \/ resetOk,
                                           query, persistent, stmt.id,
                                           doReset, ~exists, after.stepped)]

\* Statements::clear
StatementsClear(st) == [st EXCEPT !.cached = <<>>, !.temp = <<>>]

\* a plausible slip: no Drop impl, the fields are dropped as they are
ConnectionStateDropNothing(st) == st

\* impl Drop for ConnectionState: `self.statements.clear()`
ConnectionStateDrop(st) == StatementsClear(st)

NoStatements == [cached |-> <<>>, temp |-> <<>>, capacity |-> 0]

StmtIdle ==
    cstate = [st |-> NoStatements, handle |-> "none", pc |-> "off",
              calls |-> 0, last |-> NoGet, hist |-> <<>>,
              released |-> {}, releasedLate |-> {}]

(***************************************************************************)
(* The life cycle of the SQLite worker (spec 4.E) and the calls of         *)
(* SqliteConnection that go through it: do_close, ping,                    *)
(* clear_cached_statements, lock_handle, create_collation.                 *)
(***************************************************************************)
MaxCalls == 3       \* calls made on the connection in a run

ApiOps == {"close", "ping", "clear_cached_statements", "lock_handle",
           "create_collation"}

\* a plausible slip: the error of the worker dropped, `let _ = ...; Ok(())`
ApiResultSwallowsError(op, workerResult) ==
    IF op = "clear_cached_statements" THEN "Ok" ELSE workerResult

\* what the call returns for the worker's answer: do_close and ping return
\* it as it is, clear_cached_statements and lock_handle pass an error on
\* with `?` and return Ok otherwise, create_collation returns the result of
\* the send
ApiResult(op, workerResult) == workerResult

\* what the caller of a command gets when the worker ends without
\* answering: the reply channel is dropped, which is WorkerCrashed.
\* UnlockDb and CreateCollation carry no reply channel: lock_handle waits
\* for the mutex, which the ending worker releases.
DroppedReply(op) == IF op = "lock_handle" THEN "Ok" ELSE "WorkerCrashed"

\* whether the call waits for the worker after the send
AwaitsWorker(op) == op # "create_collation"

NoCmd == [op |-> "none", id |-> 0]

\* the answers given when the worker ends with queue still on the channel
RECURSIVE DropQueued(_, _)
DropQueued(results, queue) ==
    IF queue = <<>> THEN results
    ELSE DropQueued(
            IF results[Head(queue).id].res = "pending"
            THEN [results EXCEPT ![Head(queue).id].res =
                     ApiResult(Head(queue).op, DroppedReply(Head(queue).op))]
            ELSE results,
            Tail(queue))

LifeIdle ==
    life = [worker |-> "off", handle |-> "none", queue |-> <<>>,
            cur |-> NoCmd, results |-> <<>>]

(***************************************************************************)
(* Decimal and the value model: src/types/decimal.rs.  A Decimal wraps a   *)
(* BigDecimal, int * 10^(-scale); text is a sequence of characters.  A     *)
(* Value is String(s), Ext(name, inner) or a value without a string form.  *)
(***************************************************************************)
MaxTextLen == 3     \* longest text of the strings received as they are

DigitChars == <<"0", "1", "2", "3", "4", "5", "6", "7", "8", "9">>
IsDigit(ch) == \E i \in 1..10 : DigitChars[i] = ch
DigitVal(ch) == (CHOOSE i \in 1..10 : DigitChars[i] = ch) - 1

BigDec(int, scale) == [int |-> int, scale |-> scale]

\* BigInt::to_str_radix(10) of n >= 0
RECURSIVE UIntText(_)
UIntText(n) ==
    IF n < 10 THEN <<DigitChars[n + 1]>>
    ELSE Append(UIntText(n \div 10), DigitChars[(n % 10) + 1])

Zeros(n) == [i \in 1..n |-> "0"]

\* Display for BigDecimal: the digits of |int| split at the decimal point,
\* zeros filled in on either side, "-" in front of a negative number
BigDecimalToString(d) ==
    LET digits == UIntText(IF d.int < 0 THEN -d.int ELSE d.int)
        n      == Len(digits)
        before == IF d.scale >= n THEN <<"0">>
                  ELSE IF d.scale < 0 THEN digits \o Zeros(-d.scale)
                  ELSE SubSeq(digits, 1, n - d.scale)
        after  == IF d.scale >= n THEN Zeros(d.scale - n) \o digits
                  ELSE IF d.scale < 0 THEN <<>>
                  ELSE SubSeq(digits, n - d.scale + 1, n)
        body   == IF after = <<>> THEN before ELSE before \o <<".">> \o after
    IN  IF d.int < 0 THEN <<"-">> \o body ELSE body

\* the value of a sequence of digits
RECURSIVE DigitsVal(_)
DigitsVal(ds) ==
    IF ds = <<>> THEN 0
    ELSE 10 * DigitsVal(SubSeq(ds, 1, Len(ds) - 1)) + DigitVal(ds[Len(ds)])

ParseErr == [ok |-> FALSE, d |-> BigDec(0, 0)]
ParseOk(d) == [ok |-> TRUE, d |-> d]

\* BigInt::from_str: an optional sign and at least one digit, digits only
BigIntFromStr(txt) ==
    LET signed == txt # <<>> /\ txt[1] \in {"-", "+"}
        ds     == IF signed THEN Tail(txt) ELSE txt
    IN  IF ds = <<>> \/ \E i \in 1..Len(ds) : ~IsDigit(ds[i])
        THEN [ok |-> FALSE, n |-> 0]
        ELSE [ok |-> TRUE,
              n |-> IF signed /\ txt[1] = "-" THEN -DigitsVal(ds) ELSE DigitsVal(ds)]

\* BigDecimal::from_str (without an exponent part): the text is split at
\* the first ".", the digits on both sides are the integer and the number
\* of digits behind the point is the scale
BigDecimalFromStr(txt) ==
    IF txt = <<>> THEN ParseErr
    ELSE LET dots  == {i \in 1..Len(txt) : txt[i] = "."}
             loc   == IF dots = {} THEN 0
                      ELSE CHOOSE i \in dots : \A j \in dots : i <= j
             lead  == IF loc = 0 THEN txt ELSE SubSeq(txt, 1, loc - 1)
             trail == IF loc = 0 THEN <<>> ELSE SubSeq(txt, loc + 1, Len(txt))
             int   == BigIntFromStr(lead \o trail)
         IN  IF int.ok THEN ParseOk(BigDec(int.n, Len(trail))) ELSE ParseErr

\* Decimal::from_str: BigDecimal::from_str, the error mapped
DecimalFromStr(txt) == BigDecimalFromStr(txt)

\* PartialEq for BigDecimal: equality of the numbers, whatever the scales
Pow10(n) == [i \in 0..9 |-> CASE i = 0 -> 1 [] i = 1 -> 10 [] i = 2 -> 100
                              [] i = 3 -> 1000 [] i = 4 -> 10000
                              [] i = 5 -> 100000 [] i = 6 -> 1000000
                              [] i = 7 -> 10000000 [] i = 8 -> 100000000
                              [] OTHER -> 1000000000][n]
DecimalEq(a, b) ==
    IF a.scale >= b.scale
    THEN a.int = b.int * Pow10(a.scale - b.scale)
    ELSE b.int = a.int * Pow10(b.scale - a.scale)

ValString(txt) == [tag |-> "String", text |-> txt]
ValExt(name, inner) == [tag |-> "Ext", name |-> name, inner |-> inner]
ValOther(tag) == [tag |-> tag]
NoValue == [tag |-> "none"]

\* Value::into_string: the string of a String, or of the value inside an
\* Ext; None for every other value
None == [some |-> FALSE, text |-> <<>>]
Some(txt) == [some |-> TRUE, text |-> txt]
RECURSIVE IntoString(_)
IntoString(v) ==
    IF v.tag = "String" THEN Some(v.text)
    ELSE IF v.tag = "Ext" THEN IntoString(v.inner)
    ELSE None

\* impl From<Decimal> for Value
DecimalToValue(d) == ValExt("Decimal", ValString(BigDecimalToString(d)))

\* #[derive(Serialize)] #[serde(rename = "Decimal")] on the newtype, through
\* the value serializer: a newtype struct becomes Ext(name, inner), and
\* BigDecimal serializes as its text
DecimalSerialize(d) == ValExt("Decimal", ValString(BigDecimalToString(d)))

\* a plausible slip: only a String accepted (as_str on the value itself)
DecimalDeserializeStringOnly(v) ==
    IF v.tag = "String" THEN DecimalFromStr(v.text) ELSE ParseErr

\* impl Deserialize for Decimal: the value's string, parsed; an error when
\* the value has no string or the string does not parse
DecimalDeserialize(v) ==
    LET str == IntoString(v)
    IN  IF ~str.some THEN ParseErr ELSE DecimalFromStr(str.text)

\* Inputs
DecInts   == {-1111, -120, -5, 0, 1, 7, 10, 100, 1111}
DecScales == {-2, -1, 0, 1, 2, 3, 5}
DecInputs == {BigDec(i, sc) : i \in DecInts, sc \in DecScales}
TextChars == {"0", "1", "5", ".", "-", "x"}
RawValues ==
    {ValString(t) : t \in SeqsUpTo(TextChars, MaxTextLen)}
       \cup {ValExt("Decimal", ValString(t)) : t \in SeqsUpTo(TextChars, 1)}
       \cup {ValOther("Null"), ValOther("I64"), ValOther("F64"), ValOther("Bool"),
             ValOther("Array"), ValOther("Map"), ValOther("Binary")}
       \cup {ValExt("Decimal", ValOther("I64")), ValExt("Date", ValOther("Null"))}

DecPending == [done |-> FALSE, ok |-> FALSE, d |-> BigDec(0, 0)]

DecIdle ==
    dec = [src |-> "off", d |-> BigDec(0, 0), via |-> "none",
           value |-> NoValue, res |-> DecPending]

RowPending ==
    [kind |-> "Pending", values |-> <<>>, storage |-> <<>>,
     size |-> 0, remaining |-> 0, first |-> 0, site |-> "none"]

\* Inputs of the decoder.
MaxRowLen  == 4
MaxCols    == 2
MaxCellLen == 2
RowBytes   == {0, 1, 2, 5, 65, NullMarker, LenencU16}
CellBytes  == {50, 52}

\* The values of non-NULL cells: short strings, and the one-byte value that
\* equals the NULL marker.
CellValues == SeqsUpTo(CellBytes, MaxCellLen) \cup {<<NullMarker>>}

\* A cell as the server writes it (spec 4.B, 4.D): 0xfb for NULL, else a
\* length-encoded size (one byte, or 0xfc and a u16) and the bytes.
WireCells ==
    {[null |-> TRUE, form |-> "u8", bytes |-> <<>>]} \cup
    [null : {FALSE}, form : {"u8", "u16"}, bytes : CellValues]

EncodeCell(c) ==
    IF c.null THEN <<NullMarker>>
    ELSE (IF c.form = "u8" THEN <<Len(c.bytes)>>
          ELSE <<LenencU16>> \o ToLE(Len(c.bytes), 2)) \o c.bytes

RECURSIVE EncodeCells(_)
EncodeCells(cs) ==
    IF cs = <<>> THEN <<>> ELSE EncodeCell(Head(cs)) \o EncodeCells(Tail(cs))

RowIdle ==
    /\ rowIn = [buf |-> <<>>, ncols |-> 0, wf |-> FALSE, cells |-> <<>>]
    /\ rowOut = RowPending

InitRow ==
    /\ TemporalIdle
    /\ PoolIdle
    /\ LockIdle
    /\ StmtIdle
    /\ LifeIdle
    /\ DecIdle
    /\ rowOut = RowPending
    /\ \/ \E b \in SeqsUpTo(RowBytes, MaxRowLen), n \in 0..MaxCols :
             rowIn = [buf |-> b, ncols |-> n, wf |-> FALSE, cells |-> <<>>]
       \/ \E cs \in SeqsUpTo(WireCells, MaxCols) :
             rowIn = [buf |-> EncodeCells(cs), ncols |-> Len(cs),
                      wf |-> TRUE, cells |-> cs]

DecodeRow ==
    /\ rowOut = RowPending
    /\ rowOut' = decode_with(rowIn.buf, rowIn.ncols)
    /\ UNCHANGED rowIn
    /\ UNCHANGED <<tmpVars, poolVars, lockVars, cstate, life, dec>>

NextRow == DecodeRow

SpecRow == InitRow /\ [][NextRow]_vars


InitTemporal ==
    /\ RowIdle
    /\ PoolIdle
    /\ LockIdle
    /\ StmtIdle
    /\ LifeIdle
    /\ DecIdle
    /\ tEnc = NotEncoded
    /\ tDec = TmpPending
    /\ \/ \E dt \in DTInputs, pre \in SeqsUpTo(PreBytes, MaxPre) :
             /\ tIn = [op |-> "datetime", dt |-> dt, ms |-> Millis(0, 0), pre |-> pre]
             /\ wire = <<>>
       \/ \E ms \in TSInputs, pre \in SeqsUpTo(PreBytes, MaxPre) :
             /\ tIn = [op |-> "timestamp", dt |-> ZeroDT, ms |-> ms, pre |-> pre]
             /\ wire = <<>>
       \/ \E w \in RawWires :
             /\ tIn = [op |-> "raw", dt |-> ZeroDT, ms |-> Millis(0, 0), pre |-> <<>>]
             /\ wire = w

\* the bytes the call appended behind the buffer it was given
Appended(buf, pre) == SubSeq(buf, Len(pre) + 1, Len(buf))

EncodeDateTime ==
    /\ tIn.op = "datetime"
    /\ ~tEnc.done
    /\ \E r \in {DateTimeEncode(tIn.dt, tIn.pre)} :
           /\ tEnc' = [done |-> TRUE, buf |-> r.buf, size |-> r.size]
           /\ wire' = Appended(r.buf, tIn.pre)
    /\ UNCHANGED <<tIn, tDec>>
    /\ UNCHANGED <<rowVars, poolVars, lockVars, cstate, life, dec>>

EncodeTimestamp ==
    /\ tIn.op = "timestamp"
    /\ ~tEnc.done
    /\ \E r \in {TimestampEncode(tIn.ms, tIn.pre)} :
           /\ tEnc' = [done |-> TRUE, buf |-> r.buf, size |-> r.size]
           /\ wire' = Appended(r.buf, tIn.pre)
    /\ UNCHANGED <<tIn, tDec>>
    /\ UNCHANGED <<rowVars, poolVars, lockVars, cstate, life, dec>>

DecodeDateTime ==
    /\ tIn.op = "raw" \/ (tIn.op = "datetime" /\ tEnc.done)
    /\ tDec = TmpPending
    /\ \E checked \in BOOLEAN, shortRead \in {"Panic", "Err"} :
          tDec' = DateTimeDecodeBinary(wire, checked, shortRead)
    /\ UNCHANGED <<tIn, tEnc, wire>>
    /\ UNCHANGED <<rowVars, poolVars, lockVars, cstate, life, dec>>

DecodeTimestamp ==
    /\ tIn.op = "raw" \/ (tIn.op = "timestamp" /\ tEnc.done)
    /\ tDec = TmpPending
    /\ \E checked \in BOOLEAN, shortRead \in {"Panic", "Err"} :
          tDec' = TimestampDecodeBinary(wire, checked, shortRead)
    /\ UNCHANGED <<tIn, tEnc, wire>>
    /\ UNCHANGED <<rowVars, poolVars, lockVars, cstate, life, dec>>

NextTemporal ==
    \/ EncodeDateTime
    \/ EncodeTimestamp
    \/ DecodeDateTime
    \/ DecodeTimestamp

SpecTemporal == InitTemporal /\ [][NextTemporal]_vars

InitGuard ==
    /\ RowIdle
    /\ TemporalIdle
    /\ LockIdle
    /\ StmtIdle
    /\ LifeIdle
    /\ DecIdle
    /\ \E mo \in 1..MaxConns, ac \in 0..MaxTimeout :
          poolCfg = [max_open |-> mo, auto_close |-> ac]
    /\ live_count = 0
    /\ guards = [c \in Conns |-> NoGuard]
    /\ conns = [c \in Conns |-> NoConn]
    /\ tasks = [c \in Conns |-> NoTask]

\* the pool opens a connection and hands it out under a guard (spec 4.F)
Connect(c) ==
    /\ guards[c].state = "none"
    /\ live_count < poolCfg.max_open
    /\ live_count' = PoolOpen(live_count)
    /\ guards' = [guards EXCEPT ![c] = NewGuard(poolCfg.auto_close)]
    /\ conns' = [conns EXCEPT ![c].loc = "guard"]
    /\ UNCHANGED <<poolCfg, tasks>>
    /\ UNCHANGED <<rowVars, tmpVars, lockVars, cstate, life, dec>>

\* the guard is dropped
DropGuard(c) ==
    /\ guards[c].state = "live"
    /\ \E r \in {GuardDrop(guards[c])} :
          /\ guards' = [guards EXCEPT ![c].state = "dropped", ![c].conn = r.conn]
          /\ tasks' = [tasks EXCEPT ![c] =
                          IF r.spawn
                          THEN [@ EXCEPT !.state = "spawned", !.timeout = r.timeout]
                          ELSE @]
          /\ conns' = [conns EXCEPT ![c].loc = IF r.spawn THEN "task" ELSE "dropped"]
    /\ live_count' = PoolDiscard(live_count)
    /\ UNCHANGED poolCfg
    /\ UNCHANGED <<rowVars, tmpVars, lockVars, cstate, life, dec>>

\* the runtime polls the spawned task for the first time
TaskFirstPoll(c) ==
    /\ tasks[c].state = "spawned"
    /\ \E r \in {CloseTaskFirstPoll(tasks[c], conns[c], tasks[c].timeout)} :
          /\ tasks' = [tasks EXCEPT ![c] = r.task]
          /\ conns' = [conns EXCEPT ![c] = r.conn]
    /\ UNCHANGED <<poolCfg, live_count, guards>>
    /\ UNCHANGED <<rowVars, tmpVars, lockVars, cstate, life, dec>>

\* time passes for a running close task
Tick(c) ==
    /\ tasks[c].state = "running"
    /\ tasks[c].elapsed < tasks[c].timeout
    /\ tasks' = [tasks EXCEPT ![c].elapsed = @ + 1]
    /\ UNCHANGED <<poolCfg, live_count, guards, conns>>
    /\ UNCHANGED <<rowVars, tmpVars, lockVars, cstate, life, dec>>

\* close() completes (Ok or Err: `let _ =` discards it); the connection,
\* owned by the task, is destroyed when the task ends
CloseCompletes(c) ==
    /\ tasks[c].state = "running"
    /\ conns[c].closeCalls > 0
    /\ tasks' = [tasks EXCEPT ![c].state = "closed"]
    /\ conns' = [conns EXCEPT ![c].closed = TRUE, ![c].loc = "dropped"]
    /\ UNCHANGED <<poolCfg, live_count, guards>>
    /\ UNCHANGED <<rowVars, tmpVars, lockVars, cstate, life, dec>>

\* the timer expires first: the close future is dropped, the task ends
TimeoutFires(c) ==
    /\ tasks[c].state = "running"
    /\ tasks[c].elapsed >= tasks[c].timeout
    /\ tasks' = [tasks EXCEPT ![c].state = "timeout"]
    /\ conns' = [conns EXCEPT ![c].loc = "dropped"]
    /\ UNCHANGED <<poolCfg, live_count, guards>>
    /\ UNCHANGED <<rowVars, tmpVars, lockVars, cstate, life, dec>>

NextGuard ==
    \/ \E c \in Conns : Connect(c)
    \/ \E c \in Conns : DropGuard(c)
    \/ \E c \in Conns : TaskFirstPoll(c)
    \/ \E c \in Conns : Tick(c)
    \/ \E c \in Conns : CloseCompletes(c)
    \/ \E c \in Conns : TimeoutFires(c)

SpecGuard == InitGuard /\ [][NextGuard]_vars

\* a spawned task is polled by the runtime
SpecGuardFair == SpecGuard /\ WF_vars(\E c \in Conns : TaskFirstPoll(c))

\* the runtime polls a spawned task, and its timer runs and fires
SpecGuardTimed ==
    /\ SpecGuard
    /\ \A c \in Conns : /\ WF_vars(TaskFirstPoll(c))
                        /\ WF_vars(Tick(c))
                        /\ WF_vars(TimeoutFires(c))

\* after establish: the worker thread holds the mutex and waits for commands
InitLock ==
    /\ RowIdle
    /\ TemporalIdle
    /\ PoolIdle
    /\ StmtIdle
    /\ LifeIdle
    /\ DecIdle
    /\ mutex = [owner |-> "worker", waiters |-> <<>>]
    /\ worker = [pc |-> "ready", done |-> 0]
    /\ chan = <<>>
    /\ caller = [pc |-> "idle", locks |-> 0, ffi |-> 0]
    /\ sent = 0

\* a command (Prepare, Execute, Ping, ...) is put on the bounded channel
SendCommand ==
    /\ Len(chan) < MaxQueue
    /\ sent < MaxCmds
    /\ chan' = Append(chan, "Cmd")
    /\ sent' = sent + 1
    /\ UNCHANGED <<mutex, worker, caller>>
    /\ UNCHANGED <<rowVars, tmpVars, poolVars, cstate, life, dec>>

\* unlock_db, first half of the join: the caller asks for the mutex before
\* the message is sent
CallerLock ==
    /\ caller.pc = "idle"
    /\ caller.locks < MaxLocks
    /\ mutex' = MutexLock(mutex, "caller")
    /\ caller' = [caller EXCEPT !.pc = "sending"]
    /\ UNCHANGED <<worker, chan, sent>>
    /\ UNCHANGED <<rowVars, tmpVars, poolVars, cstate, life, dec>>

\* unlock_db, second half of the join: Command::UnlockDb is sent
CallerSendUnlock ==
    /\ caller.pc = "sending"
    /\ Len(chan) < MaxQueue
    /\ chan' = Append(chan, "UnlockDb")
    /\ caller' = [caller EXCEPT !.pc = "awaiting"]
    /\ UNCHANGED <<mutex, worker, sent>>
    /\ UNCHANGED <<rowVars, tmpVars, poolVars, cstate, life, dec>>

\* lock_handle returns Ok(LockedSqliteHandle { guard })
LockHandleReturns ==
    /\ HandleReady(caller, mutex)
    /\ caller' = [caller EXCEPT !.pc = "holding", !.locks = @ + 1]
    /\ UNCHANGED <<mutex, worker, chan, sent>>
    /\ UNCHANGED <<rowVars, tmpVars, poolVars, cstate, life, dec>>

\* the caller uses LockedSqliteHandle::as_raw_handle for an FFI call
CallerFfi ==
    /\ caller.pc = "holding"
    /\ caller.ffi = 0
    /\ caller' = [caller EXCEPT !.ffi = 1]
    /\ UNCHANGED <<mutex, worker, chan, sent>>
    /\ UNCHANGED <<rowVars, tmpVars, poolVars, cstate, life, dec>>

\* the LockedSqliteHandle, and with it the MutexGuard, is dropped
DropHandle ==
    /\ caller.pc = "holding"
    /\ caller' = [caller EXCEPT !.pc = "idle", !.ffi = 0]
    /\ mutex' = IF mutex.owner = "caller" THEN MutexUnlock(mutex) ELSE mutex
    /\ worker' = IF mutex.owner = "caller" /\ mutex.waiters # <<>>
                    /\ Head(mutex.waiters) = "worker"
                 THEN [worker EXCEPT !.pc = "ready"] ELSE worker
    /\ UNCHANGED <<chan, sent>>
    /\ UNCHANGED <<rowVars, tmpVars, poolVars, cstate, life, dec>>

\* the worker, holding the mutex, takes the next command: a command is
\* executed, UnlockDb makes it drop its guard
WorkerReceive ==
    /\ worker.pc = "ready"
    /\ chan # <<>>
    /\ chan' = Tail(chan)
    /\ IF Head(chan) = "UnlockDb"
       THEN /\ mutex' = MutexUnlock(mutex)
            /\ worker' = [worker EXCEPT !.pc = "relock"]
       ELSE /\ worker' = [worker EXCEPT !.pc = "executing"]
            /\ UNCHANGED mutex
    /\ UNCHANGED <<caller, sent>>
    /\ UNCHANGED <<rowVars, tmpVars, poolVars, cstate, life, dec>>

\* the worker finishes the FFI calls of a command and replies
WorkerFinish ==
    /\ worker.pc = "executing"
    /\ worker' = [worker EXCEPT !.pc = "ready", !.done = @ + 1]
    /\ UNCHANGED <<mutex, chan, caller, sent>>
    /\ UNCHANGED <<rowVars, tmpVars, poolVars, cstate, life, dec>>

\* the worker asks for the mutex again and blocks until it has it
WorkerRelock ==
    /\ worker.pc = "relock"
    /\ mutex' = MutexLock(mutex, "worker")
    /\ worker' = [worker EXCEPT !.pc = IF mutex.owner = "none" THEN "ready"
                                       ELSE "blocked"]
    /\ UNCHANGED <<chan, caller, sent>>
    /\ UNCHANGED <<rowVars, tmpVars, poolVars, cstate, life, dec>>

NextLock ==
    \/ SendCommand
    \/ CallerLock
    \/ CallerSendUnlock
    \/ LockHandleReturns
    \/ CallerFfi
    \/ DropHandle
    \/ WorkerReceive
    \/ WorkerFinish
    \/ WorkerRelock

SpecLock == InitLock /\ [][NextLock]_vars

\* the worker is a thread of its own: it runs whenever it can
SpecLockFair ==
    SpecLock /\ WF_vars(WorkerReceive) /\ WF_vars(WorkerFinish) /\ WF_vars(WorkerRelock)


\* Statements::new(capacity) in a ConnectionState with an open handle
InitStmt ==
    /\ RowIdle
    /\ TemporalIdle
    /\ PoolIdle
    /\ LockIdle
    /\ LifeIdle
    /\ DecIdle
    /\ \E k \in 0..MaxCap :
          cstate = [st |-> [cached |-> <<>>, temp |-> <<>>, capacity |-> k],
                    handle |-> "open", pc |-> "live", calls |-> 0,
                    last |-> NoGet, hist |-> <<>>,
                    released |-> {}, releasedLate |-> {}]

\* the worker calls Statements::get for a command; ok says whether the one
\* fallible step the call reaches (VirtualStatement::new, or reset on a hit)
\* succeeds
Get(query, persistent, ok) ==
    /\ cstate.pc = "live"
    /\ cstate.calls < MaxGets
    /\ \E r \in {StatementsGet(cstate.st, query, persistent,
                               cstate.calls + 1, ok, ok)} :
          cstate' = [cstate EXCEPT
                        !.st = r.st,
                        !.calls = @ + 1,
                        !.last = r.res,
                        !.released = @ \cup r.dropped,
                        !.hist = IF r.res.kind \in {"hit", "miss"}
                                    /\ (r.res.kind = "hit" \/ r.res.ok)
                                 THEN Append(@, query) ELSE @]
    /\ UNCHANGED <<baseVars, life, dec>>

\* the statement the last call returned is executed: it is stepped
StepStatement ==
    /\ cstate.pc = "live"
    /\ cstate.last.ok
    /\ ~cstate.last.stepped
    /\ LET mark(entries) ==
              [i \in 1..Len(entries) |->
                  IF entries[i].id = cstate.last.id
                  THEN [entries[i] EXCEPT !.stepped = TRUE] ELSE entries[i]]
       IN  cstate' = [cstate EXCEPT
                         !.st.cached = mark(@),
                         !.st.temp = mark(@),
                         !.last.stepped = TRUE]
    /\ UNCHANGED <<baseVars, life, dec>>

\* Command::ClearCache: Statements::clear
ClearCache ==
    /\ cstate.pc = "live"
    /\ cstate.st.cached # <<>> \/ cstate.st.temp # <<>>
    /\ cstate' = [cstate EXCEPT
                     !.st = StatementsClear(@),
                     !.last = NoGet,
                     !.hist = <<>>,
                     !.released = @ \cup CacheIds(cstate.st.cached)
                                    \cup CacheIds(cstate.st.temp)]
    /\ UNCHANGED <<baseVars, life, dec>>

\* the ConnectionState is dropped: first the body of its Drop impl
DropBody ==
    /\ cstate.pc = "live"
    /\ \E st2 \in {ConnectionStateDrop(cstate.st)} :
          cstate' = [cstate EXCEPT
                        !.st = st2,
                        !.pc = "body_done",
                        !.last = NoGet,
                        !.released = @ \cup ((CacheIds(cstate.st.cached)
                                               \cup CacheIds(cstate.st.temp))
                                             \ (CacheIds(st2.cached)
                                                \cup CacheIds(st2.temp)))]
    /\ UNCHANGED <<baseVars, life, dec>>

\* then its fields in declaration order: `handle` first (the database
\* handle is closed)
DropHandleField ==
    /\ cstate.pc = "body_done"
    /\ cstate' = [cstate EXCEPT !.handle = "closed", !.pc = "handle_closed"]
    /\ UNCHANGED <<baseVars, life, dec>>

\* and `statements` second: whatever it still holds is released now
DropStatementsField ==
    /\ cstate.pc = "handle_closed"
    /\ cstate' = [cstate EXCEPT
                     !.st = StatementsClear(@),
                     !.pc = "dropped",
                     !.releasedLate = CacheIds(cstate.st.cached)
                                      \cup CacheIds(cstate.st.temp)]
    /\ UNCHANGED <<baseVars, life, dec>>

NextStmt ==
    \/ \E q \in Queries, p \in BOOLEAN, ok \in BOOLEAN : Get(q, p, ok)
    \/ StepStatement
    \/ ClearCache
    \/ DropBody
    \/ DropHandleField
    \/ DropStatementsField

SpecStmt == InitStmt /\ [][NextStmt]_vars

\* after establish: the worker is Ready, the handle open
InitLife ==
    /\ RowIdle
    /\ TemporalIdle
    /\ PoolIdle
    /\ LockIdle
    /\ StmtIdle
    /\ DecIdle
    /\ life = [worker |-> "Ready", handle |-> "open", queue |-> <<>>,
               cur |-> NoCmd, results |-> <<>>]

\* an earlier close has returned Ok
ClosedBefore == \E i \in 1..Len(life.results) :
                    life.results[i].op = "close" /\ life.results[i].res = "Ok"

\* a call on the connection: the command is sent to the worker; the send
\* fails at once when the worker has terminated
Issue(op) ==
    /\ Len(life.results) < MaxCalls
    /\ LET id == Len(life.results) + 1
           entry(res) == [op |-> op, res |-> res,
                          afterTerminated |-> life.worker = "Terminated",
                          afterClose |-> ClosedBefore]
       IN  IF life.worker = "Terminated"
           THEN life' = [life EXCEPT !.results =
                            Append(@, entry(ApiResult(op, "WorkerCrashed")))]
           ELSE /\ Len(life.queue) < MaxQueue
                /\ life' = [life EXCEPT
                              !.queue = Append(@, [op |-> op, id |-> id]),
                              !.results = Append(@, entry(
                                             IF AwaitsWorker(op) THEN "pending"
                                             ELSE ApiResult(op, "Ok")))]
    /\ UNCHANGED <<baseVars, cstate, dec>>

\* Ready -> Executing(cmd), or ShuttingDown for Shutdown
WorkerTake ==
    /\ life.worker = "Ready"
    /\ life.queue # <<>>
    /\ life' = [life EXCEPT
                   !.queue = Tail(@),
                   !.cur = Head(life.queue),
                   !.worker = IF Head(life.queue).op = "close"
                              THEN "ShuttingDown" ELSE "Executing"]
    /\ UNCHANGED <<baseVars, cstate, dec>>

\* completion replies to the requester and returns to Ready
WorkerComplete ==
    /\ life.worker = "Executing"
    /\ life' = [life EXCEPT
                   !.worker = "Ready",
                   !.cur = NoCmd,
                   !.results[life.cur.id].res =
                       IF @ = "pending" THEN ApiResult(life.cur.op, "Ok") ELSE @]
    /\ UNCHANGED <<baseVars, cstate, dec>>

\* Shutdown closes the handle, answers and ends the worker; what is still
\* on the channel is dropped with it
WorkerShutdown ==
    /\ life.worker = "ShuttingDown"
    /\ life' = [life EXCEPT
                   !.worker = "Terminated",
                   !.handle = "closed",
                   !.cur = NoCmd,
                   !.queue = <<>>,
                   !.results = DropQueued(
                       [@ EXCEPT ![life.cur.id].res = ApiResult("close", "Ok")],
                       life.queue)]
    /\ UNCHANGED <<baseVars, cstate, dec>>

\* an internal fatal error: directly to Terminated
WorkerFatal ==
    /\ life.worker = "Executing"
    /\ life' = [life EXCEPT
                   !.worker = "Terminated",
                   !.handle = "closed",
                   !.cur = NoCmd,
                   !.queue = <<>>,
                   !.results = DropQueued(@, <<life.cur>> \o life.queue)]
    /\ UNCHANGED <<baseVars, cstate, dec>>

NextLife ==
    \/ \E op \in ApiOps : Issue(op)
    \/ WorkerTake
    \/ WorkerComplete
    \/ WorkerShutdown
    \/ WorkerFatal

SpecLife == InitLife /\ [][NextLife]_vars

\* a Decimal to convert, or a Value received as it is
InitDecimal ==
    /\ RowIdle
    /\ TemporalIdle
    /\ PoolIdle
    /\ LockIdle
    /\ StmtIdle
    /\ LifeIdle
    /\ \/ \E d \in DecInputs :
             dec = [src |-> "decimal", d |-> d, via |-> "none",
                    value |-> NoValue, res |-> DecPending]
       \/ \E v \in RawValues :
             dec = [src |-> "raw", d |-> BigDec(0, 0), via |-> "raw",
                    value |-> v, res |-> DecPending]

\* Value::from(decimal)
DecimalInto ==
    /\ dec.src = "decimal" /\ dec.via = "none"
    /\ dec' = [dec EXCEPT !.via = "from", !.value = DecimalToValue(dec.d)]
    /\ UNCHANGED <<baseVars, cstate, life>>

\* to_value!(decimal)
DecimalSer ==
    /\ dec.src = "decimal" /\ dec.via = "none"
    /\ dec' = [dec EXCEPT !.via = "serialize", !.value = DecimalSerialize(dec.d)]
    /\ UNCHANGED <<baseVars, cstate, life>>

\* to_value!(decimal.to_string()): a plain string holding the text
DecimalAsText ==
    /\ dec.src = "decimal" /\ dec.via = "none"
    /\ dec' = [dec EXCEPT !.via = "text",
                          !.value = ValString(BigDecimalToString(dec.d))]
    /\ UNCHANGED <<baseVars, cstate, life>>

\* from_value::<Decimal>(value)
DecimalDe ==
    /\ dec.via # "none"
    /\ ~dec.res.done
    /\ \E r \in {DecimalDeserialize(dec.value)} :
          dec' = [dec EXCEPT !.res = [done |-> TRUE, ok |-> r.ok, d |-> r.d]]
    /\ UNCHANGED <<baseVars, cstate, life>>

NextDecimal ==
    \/ DecimalInto
    \/ DecimalSer
    \/ DecimalAsText
    \/ DecimalDe

SpecDecimal == InitDecimal /\ [][NextDecimal]_vars

(***************************************************************************)
(* Claims about the text row decoder (SpecRow).                            *)
(***************************************************************************)
\* The first non-NULL cell, walking the row as the wire format defines it,
\* whose declared size exceeds the bytes left behind its length prefix.
RECURSIVE FirstOversized(_, _, _)
FirstOversized(buf, pos, k) ==
    LET none == [hit |-> FALSE, size |-> 0, remaining |-> 0]
    IN  IF k = 0 \/ pos >= Len(buf) THEN none
        ELSE IF buf[pos + 1] = NullMarker THEN FirstOversized(buf, pos + 1, k - 1)
        ELSE LET r == get_uint_lenenc(buf, pos)
             IN  IF ~r.ok THEN none
                 ELSE IF r.val > Len(buf) - r.next
                      THEN [hit |-> TRUE, size |-> r.val, remaining |-> Len(buf) - r.next]
                      ELSE FirstOversized(buf, r.next + r.val, k - 1)

\* C1: whenever a non-NULL cell declares more bytes than remain behind its
\* length prefix (also when none remain), decode_with returns a Protocol
\* error naming the declared length and the remaining count; it never panics.
C1_OversizedCellIsProtocolError ==
    rowOut.kind # "Pending" =>
        LET o == FirstOversized(rowIn.buf, 0, rowIn.ncols)
        IN  o.hit => /\ rowOut.kind = "Protocol"
                     /\ rowOut.size = o.size
                     /\ rowOut.remaining = o.remaining

\* the position at which cell i of a well-formed row starts on the wire
CellStart(cs, i) == Len(EncodeCells(SubSeq(cs, 1, i - 1)))
PrefixLen(c) == IF c.form = "u8" THEN 1 ELSE 3

\* C2: a well-formed row of n cells decodes to exactly n entries in column
\* order; entry i is None iff cell i is 0xfb (one byte consumed), else the
\* range offset..offset+size behind the cell's prefix, and the slice of the
\* retained snapshot at that range is the cell's bytes.
C2_WellFormedRowDecodes ==
    (rowIn.wf /\ rowOut.kind # "Pending") =>
        /\ rowOut.kind = "Ok"
        /\ rowOut.storage = rowIn.buf
        /\ Len(rowOut.values) = rowIn.ncols
        /\ \A i \in 1..rowIn.ncols :
              LET c == rowIn.cells[i]
                  v == rowOut.values[i]
              IN  /\ v.null <=> c.null
                  /\ c.null => Len(EncodeCell(c)) = 1
                  /\ ~c.null =>
                        /\ v.start = CellStart(rowIn.cells, i) + PrefixLen(c)
                        /\ v.end = v.start + Len(c.bytes)
                        /\ v.end <= Len(rowOut.storage)
                        /\ SubSeq(rowOut.storage, v.start + 1, v.end) = c.bytes

\* [0xFB, 0x02, 0x34, 0x32] with two columns gives [None, Some("42")]
C2_Witness ==
    /\ rowIn.wf
    /\ rowIn.buf = <<251, 2, 52, 50>>
    /\ rowOut.kind = "Ok"
    /\ rowOut.values = <<NoneCell, SomeCell(2, 4)>>

(***************************************************************************)
(* Claims about the binary temporal codec (SpecTemporal).                  *)
(***************************************************************************)
\* the wire layout of spec 4.D.1: a length byte and that many payload bytes
ExpectedDateTimeWire(dt) ==
    LET date    == ToLE(dt.year, 2) \o <<dt.mon, dt.day>>
        time    == <<dt.hour, dt.minute, dt.sec>>
        micros  == ToLE(dt.nano \div 1000, 4)
        payload == IF dt.hour = 0 /\ dt.minute = 0 /\ dt.sec = 0 /\ dt.nano = 0
                   THEN date
                   ELSE IF dt.nano = 0 THEN date \o time
                   ELSE date \o time \o micros
    IN  <<Len(payload)>> \o payload

\* C3: DateTime::encode writes a length byte L and exactly L payload bytes,
\* with no embedded length prefix: L = 4 (date) when the time and the
\* nanosecond are zero, L = 7 (date, time) when only the nanosecond is zero,
\* L = 11 (date, time, microseconds u32 LE) when the nanosecond is nonzero.
C3_DateTimeWireLayout ==
    (tIn.op = "datetime" /\ tEnc.done) =>
        /\ wire = ExpectedDateTimeWire(tIn.dt)
        /\ wire[1] \in {4, 7, 11}
        /\ Len(wire) = 1 + wire[1]
        /\ (wire[1] = 4) <=> (tIn.dt.hour = 0 /\ tIn.dt.minute = 0
                                /\ tIn.dt.sec = 0 /\ tIn.dt.nano = 0)
        /\ (wire[1] = 11) <=> (tIn.dt.nano # 0)

\* 2024-01-02 03:04:05.000006 encodes to 0B E8 07 01 02 03 04 05 06 00 00 00
C3_Witness ==
    /\ tIn.op = "datetime"
    /\ tEnc.done
    /\ tIn.dt = DT(2024, 1, 2, 3, 4, 5, 6000)
    /\ wire = <<11, 232, 7, 1, 2, 3, 4, 5, 6, 0, 0, 0>>

\* C4 as stated: encoding a datetime and decoding the bytes recovers all the
\* components, the nanosecond included.
C4_RoundTripExact ==
    (tIn.op = "datetime" /\ tDec.kind # "Pending") =>
        /\ tDec.kind = "Ok"
        /\ tDec.dt = tIn.dt

\* C4 amended: encoding a datetime (year 0..65535) and decoding the bytes
\* recovers year, month, day, hour, minute and second exactly and the
\* nanosecond truncated to whole microseconds.
C4_RoundTripToMicros ==
    (tIn.op = "datetime" /\ tDec.kind # "Pending" /\ tIn.dt.year \in 0..65535) =>
        /\ tDec.kind = "Ok"
        /\ tDec.dt = [tIn.dt EXCEPT !.nano = (tIn.dt.nano \div 1000) * 1000]

C4_Witness ==
    /\ tIn.op = "datetime"
    /\ tIn.dt = DT(2024, 1, 2, 3, 4, 5, 999999999)
    /\ tDec.kind = "Ok"
    /\ tDec.dt = DT(2024, 1, 2, 3, 4, 5, 999999000)

\* C5: Timestamp::encode of t writes the bytes DateTime::encode writes for
\* the broken-down datetime of t: a length byte L in {4, 7, 11} and exactly
\* L payload bytes; a timestamp at 00:00:00.000 is 4 and the four date bytes.
C5_TimestampWireIsDateTimeWire ==
    (tIn.op = "timestamp" /\ tEnc.done) =>
        /\ wire = DateTimeEncode(from_timestamp_millis(tIn.ms), <<>>).buf
        /\ wire[1] \in {4, 7, 11}
        /\ Len(wire) = 1 + wire[1]

\* C6: binary decoding of a DATETIME or TIMESTAMP whose length byte is not
\* 0, 4, 7 or 11 returns a Protocol error.
C6_BadLengthIsProtocolError ==
    (tIn.op = "raw" /\ tDec.kind # "Pending" /\ wire # <<>>) =>
        (wire[1] \notin {0, 4, 7, 11} => tDec.kind = "Err")

\* C7: binary decoding of a DATETIME or TIMESTAMP that is the single length
\* byte 0 succeeds with the zero datetime and reads no date byte.
C7_ZeroLengthIsZeroDateTime ==
    (tIn.op = "raw" /\ tDec.kind # "Pending" /\ wire = <<0>>) =>
        /\ tDec.kind = "Ok"
        /\ tDec.dt = ZeroDT
        /\ tDec.read = 0

C7_Witness ==
    /\ tIn.op = "raw"
    /\ wire = <<0>>
    /\ tDec.ty = "timestamp"
    /\ tDec.kind = "Ok"
    /\ tDec.dt = ZeroDT

(***************************************************************************)
(* Claims about the connection guard (SpecGuard, SpecGuardFair).           *)
(***************************************************************************)
\* what holds of a dropped guard that had auto_close = Some(d): the
\* connection was taken out of the guard, is not idle in the pool, and a
\* close task bounded by d was spawned for it
DroppedWithAutoClose(c) ==
    /\ ~guards[c].conn
    /\ conns[c].loc \in {"task", "dropped"}
    /\ tasks[c].state # "none"
    /\ tasks[c].timeout = guards[c].auto_close

C9_AutoCloseOnRelease ==
    /\ [](\A c \in Conns :
            /\ conns[c].closeCalls <= 1
            /\ tasks[c].state \in {"running", "closed", "timeout"} =>
                  /\ conns[c].closeCalls = 1
                  /\ tasks[c].closeStartedAt < tasks[c].timeout)
    /\ [][\A c \in Conns :
            (guards[c].state = "live" /\ guards'[c].state = "dropped"
                /\ guards[c].auto_close > 0) =>
                  /\ live_count' = live_count - 1
                  /\ tasks'[c].state = "spawned"
                  /\ tasks'[c].timeout = guards[c].auto_close]_vars
    /\ \A c \in Conns : (tasks[c].state = "spawned") ~> (conns[c].closeCalls = 1)

C9_Witness ==
    \E c \in Conns :
        /\ guards[c].state = "dropped"
        /\ guards[c].auto_close = MaxTimeout
        /\ tasks[c].state = "timeout"
        /\ tasks[c].elapsed = MaxTimeout
        /\ conns[c].closeCalls = 1
        /\ live_count = 0

\* the worker is inside a command or free to take the next one
WorkerRunning == worker.pc \in {"ready", "executing"}

\* C10: while a LockedSqliteHandle obtained from lock_handle exists the
\* caller owns the mutex and the worker is suspended on it: no step taken
\* while the handle exists takes a command off the channel or completes
\* one; and whenever commands have been sent, the worker processes them
\* unless the handle is (again) locked out from it, so that after the guard
\* is dropped the worker resumes with the commands queued meanwhile.
C10_HandleLocksOutWorker ==
    /\ [](caller.pc = "holding" =>
            /\ mutex.owner = "caller"
            /\ ~WorkerRunning)
    /\ [][caller.pc = "holding" /\ caller'.pc = "holding" =>
            /\ worker'.done = worker.done
            /\ Len(chan') >= Len(chan)
            /\ ~WorkerRunning']_vars
    /\ [][caller.pc = "holding" /\ caller'.pc # "holding" =>
            /\ mutex'.owner # "caller"
            /\ worker'.pc \in {"ready", "relock"}]_vars
    /\ \A n \in 1..MaxCmds :
            (sent >= n) ~> (worker.done >= n \/ mutex.owner = "caller")

\* the handle is held and used for an FFI call while the worker is blocked
\* on the mutex with a command waiting on the channel
C10_Witness ==
    /\ caller.pc = "holding"
    /\ caller.ffi = 1
    /\ worker.pc = "blocked"
    /\ chan # <<>>
    /\ Head(chan) = "Cmd"
    /\ worker.done < sent

(***************************************************************************)
(* Claims about the SQLite statement cache (SpecStmt).                     *)
(***************************************************************************)
\* the persistent accesses made so far that reached the cache
Accessed == {cstate.hist[i] : i \in 1..Len(cstate.hist)}

\* a call of Statements::get has just returned
GetReturned == cstate'.calls = cstate.calls + 1

\* C11: a get with persistent = false, or with capacity 0, uses the scratch
\* slot: when it succeeds the slot holds exactly the new statement, the
\* statement that was there is dropped and the cache is left as it was.
\* There is never more than one scratch statement, a disabled cache stays
\* empty, and the cache holds entries only for queries of persistent calls.
C11_NonPersistentUsesScratch ==
    /\ [](/\ Len(cstate.st.temp) <= 1
          /\ cstate.st.capacity = 0 => cstate.st.cached = <<>>
          /\ CacheKeys(cstate.st.cached) \subseteq Accessed
          /\ (cstate.last.kind # "none"
                /\ (~cstate.last.persistent \/ cstate.st.capacity = 0))
             => /\ cstate.last.kind = "temp"
                /\ cstate.last.ok =>
                      /\ Len(cstate.st.temp) = 1
                      /\ cstate.st.temp[1].id = cstate.last.id
                      /\ cstate.st.temp[1].query = cstate.last.query
                      /\ ~cstate.st.temp[1].persistent)
    /\ [][(GetReturned /\ cstate'.last.kind = "temp") =>
             /\ cstate'.st.cached = cstate.st.cached
             /\ cstate'.hist = cstate.hist
             /\ cstate'.last.ok =>
                   /\ CacheIds(cstate.st.temp) \subseteq cstate'.released
                   /\ cstate'.last.id \notin CacheIds(cstate.st.temp)
             /\ ~cstate'.last.ok => cstate'.st.temp = cstate.st.temp]_vars

\* an enabled cache, a non-persistent get that replaced an earlier scratch
\* statement
C11_Witness ==
    /\ cstate.st.capacity > 0
    /\ cstate.last.kind = "temp"
    /\ cstate.last.ok
    /\ ~cstate.last.persistent
    /\ cstate.st.cached # <<>>
    /\ cstate.last.id - 1 \in cstate.released

\* C12: a successful persistent get on an enabled cache returns, on a hit,
\* the statement that was cached under the query after resetting it, and on
\* a miss a newly created persistent statement, now cached under the query,
\* without a reset; no statement is returned in a stepped state.
C12_HitResetsBeforeReuse ==
    /\ []((cstate.last.ok /\ cstate.last.kind \in {"hit", "miss"}) =>
            /\ cstate.last.persistent /\ cstate.st.capacity > 0
            /\ cstate.last.query \in CacheKeys(cstate.st.cached)
            /\ \E i \in 1..Len(cstate.st.cached) :
                  /\ cstate.st.cached[i].query = cstate.last.query
                  /\ cstate.st.cached[i].id = cstate.last.id
                  /\ cstate.st.cached[i].persistent
            /\ cstate.last.kind = "hit" =>
                  cstate.last.reset /\ ~cstate.last.created
            /\ cstate.last.kind = "miss" =>
                  cstate.last.created /\ ~cstate.last.reset)
    /\ [][GetReturned =>
            /\ cstate'.last.ok => ~cstate'.last.stepped
            /\ (cstate'.last.persistent /\ cstate.st.capacity > 0) =>
                  (cstate'.last.kind = "hit"
                     <=> cstate'.last.query \in CacheKeys(cstate.st.cached))
            /\ cstate'.last.kind = "hit" =>
                  cstate'.last.id \in CacheIds(cstate.st.cached)
            /\ (cstate'.last.kind = "miss" /\ cstate'.last.ok) =>
                  cstate'.last.id \notin CacheIds(cstate.st.cached)]_vars

\* a hit on a statement prepared by an earlier call and stepped since
C12_Witness ==
    /\ cstate.last.kind = "hit"
    /\ cstate.last.ok
    /\ cstate.last.reset
    /\ cstate.last.id < cstate.calls
    /\ cstate.calls >= 3

\* the k most recently accessed distinct elements of a sequence of accesses
RECURSIVE MostRecentDistinct(_, _)
MostRecentDistinct(hist, k) ==
    IF hist = <<>> \/ k = 0 THEN {}
    ELSE LET q == hist[Len(hist)]
         IN  {q} \cup MostRecentDistinct(
                         SelectSeq(hist, LAMBDA x : x # q), k - 1)

\* C13: with capacity K >= 1 the queries retained in the cache are the K
\* most recently accessed distinct queries of the persistent gets made; the
\* cache never holds more than K entries and the query just accessed is
\* retained.
C13_CacheIsStrictLru ==
    (cstate.pc = "live" /\ cstate.st.capacity >= 1) =>
        /\ CacheKeys(cstate.st.cached)
              = MostRecentDistinct(cstate.hist, cstate.st.capacity)
        /\ Len(cstate.st.cached) <= cstate.st.capacity
        /\ Cardinality(CacheKeys(cstate.st.cached)) = Len(cstate.st.cached)
        /\ (cstate.last.kind = "hit"
              \/ (cstate.last.kind = "miss" /\ cstate.last.ok))
           => cstate.last.query \in CacheKeys(cstate.st.cached)

\* a full cache of two after a hit on the older entry and a miss that
\* evicted the other one
C13_Witness ==
    /\ cstate.st.capacity = 2
    /\ Len(cstate.hist) = 4
    /\ cstate.hist[1] = cstate.hist[3]
    /\ cstate.hist[2] \notin {cstate.hist[1], cstate.hist[4]}
    /\ cstate.hist[4] # cstate.hist[1]
    /\ CacheKeys(cstate.st.cached) = {cstate.hist[3], cstate.hist[4]}

\* C14: when a ConnectionState is dropped, its statements are released
\* before the handle is closed: once the handle is closed the cache is
\* empty and the scratch slot is None, and no statement is released later.
C14_StatementsReleasedBeforeHandle ==
    /\ cstate.handle = "closed" =>
          /\ cstate.st.cached = <<>>
          /\ cstate.st.temp = <<>>
    /\ cstate.releasedLate = {}

\* the handle has just been closed in the drop of a state that held a
\* cached statement and a scratch statement
C14_Witness ==
    /\ cstate.pc = "handle_closed"
    /\ cstate.handle = "closed"
    /\ cstate.calls = 2
    /\ Len(cstate.hist) = 1
    /\ cstate.released = {1, 2}

(***************************************************************************)
(* Claims about the worker's life cycle (SpecLife).                        *)
(***************************************************************************)
\* C15: close is idempotent: a close called after a close that returned Ok
\* returns Ok.
C15_CloseIsIdempotent ==
    \A i \in 1..Len(life.results) :
        (life.results[i].op = "close" /\ life.results[i].afterClose
           /\ life.results[i].res # "pending")
        => life.results[i].res = "Ok"

\* C16: a ping, lock_handle, clear_cached_statements or create_collation
\* issued once the worker is Terminated has failed with WorkerCrashed as
\* soon as it is issued: it does not succeed and does not wait for a reply.
C16_CommandsFailAfterTerminated ==
    \A i \in 1..Len(life.results) :
        (life.results[i].afterTerminated /\ life.results[i].op # "close")
        => life.results[i].res = "WorkerCrashed"

\* every such command issued after a Shutdown ended the worker
C16_Witness ==
    /\ life.worker = "Terminated"
    /\ Len(life.results) >= 2
    /\ life.results[1].op = "close" /\ life.results[1].res = "Ok"
    /\ \E i \in 2..Len(life.results) :
          /\ life.results[i].afterTerminated
          /\ life.results[i].op = "clear_cached_statements"
          /\ life.results[i].res = "WorkerCrashed"

(***************************************************************************)
(* Claims about the pool's count and the close task (SpecGuard,            *)
(* SpecGuardTimed).                                                        *)
(***************************************************************************)
IdleConns == {c \in Conns : conns[c].loc = "idle"}
OutstandingGuards == {c \in Conns : guards[c].state = "live"}

C20_CloseTaskTerminates ==
    /\ \A c \in Conns :
          (tasks[c].state = "spawned") ~> (tasks[c].state \in {"closed", "timeout"})
    /\ [](\A c \in Conns :
            /\ tasks[c].state \in {"closed", "timeout"} => conns[c].loc = "dropped"
            /\ tasks[c].state = "closed" => conns[c].closed
            /\ tasks[c].state = "timeout" =>
                  /\ ~conns[c].closed
                  /\ tasks[c].elapsed >= tasks[c].timeout
            /\ tasks[c].state # "none" => tasks[c].elapsed <= tasks[c].timeout)
    /\ [][\A c \in Conns :
            /\ (guards[c].state = "live" /\ guards'[c].state = "dropped") =>
                  /\ conns'[c].closeCalls = 0
                  /\ ~conns'[c].closed
                  /\ tasks'[c].state \in {"none", "spawned"}
            /\ (tasks[c].state = "running" /\ tasks'[c].state # "running") =>
                  /\ tasks'[c].state \in {"closed", "timeout"}
                  /\ live_count' = live_count
                  /\ guards' = guards]_vars

\* a close that never completed: the task gave up at the timeout
C20_Witness ==
    \E c \in Conns :
        /\ tasks[c].state = "timeout"
        /\ tasks[c].elapsed = tasks[c].timeout
        /\ conns[c].closeCalls = 1
        /\ ~conns[c].closed
        /\ conns[c].loc = "dropped"

(***************************************************************************)
(* The diagnostic byte of the text row decoder's error (SpecRow).          *)
(***************************************************************************)
\* The first non-NULL cell that declares more bytes than remain: where its
\* encoding starts and where its value starts (behind the length prefix).
RECURSIVE RejectedColumn(_, _, _)
RejectedColumn(buf, pos, k) ==
    LET none == [hit |-> FALSE, start |-> 0, value |-> 0]
    IN  IF k = 0 \/ pos >= Len(buf) THEN none
        ELSE IF buf[pos + 1] = NullMarker THEN RejectedColumn(buf, pos + 1, k - 1)
        ELSE LET r == get_uint_lenenc(buf, pos)
             IN  IF ~r.ok THEN none
                 ELSE IF r.val > Len(buf) - r.next
                      THEN [hit |-> TRUE, start |-> pos, value |-> r.next]
                      ELSE RejectedColumn(buf, r.next + r.val, k - 1)

\* C19 as stated: the diagnostic byte of the Protocol error is the byte at
\* which the rejected column's encoding starts.
C19_DiagnosticIsColumnStart ==
    rowOut.kind = "Protocol" =>
        LET c == RejectedColumn(rowIn.buf, 0, rowIn.ncols)
        IN  c.hit /\ rowOut.first = rowIn.buf[c.start + 1]

\* C19 amended: the diagnostic byte of the Protocol error is the byte right
\* behind the rejected column's length prefix, the first byte of its value.
C19_DiagnosticIsFirstValueByte ==
    rowOut.kind = "Protocol" =>
        LET c == RejectedColumn(rowIn.buf, 0, rowIn.ncols)
        IN  /\ c.hit
            /\ c.value < Len(rowIn.buf)
            /\ rowOut.first = rowIn.buf[c.value + 1]

\* [0x05, 0x01]: five bytes declared, one remains; the message shows 0x01
C19_Witness ==
    /\ rowIn.buf = <<5, 1>>
    /\ rowIn.ncols = 1
    /\ rowOut.kind = "Protocol"
    /\ rowOut.size = 5
    /\ rowOut.remaining = 1
    /\ rowOut.first = 1

(***************************************************************************)
(* Claims about Decimal and the value model (SpecDecimal).                 *)
(***************************************************************************)
\* C18: a Decimal converts to Ext("Decimal", String(text)) where the text
\* denotes the decimal; deserializing a Decimal from that value, from the
\* serialized value or from a plain string of the text gives an equal
\* Decimal; deserializing from a value without a string form is an error.
C18_DecimalRoundTrip ==
    /\ (dec.src = "decimal" /\ dec.via = "from") =>
          /\ dec.value.tag = "Ext"
          /\ dec.value.name = "Decimal"
          /\ dec.value.inner.tag = "String"
          /\ BigDecimalFromStr(dec.value.inner.text).ok
          /\ DecimalEq(BigDecimalFromStr(dec.value.inner.text).d, dec.d)
    /\ (dec.src = "decimal" /\ dec.via = "text") =>
          dec.value.tag = "String"
    /\ (dec.src = "decimal" /\ dec.res.done) =>
          /\ dec.res.ok
          /\ DecimalEq(dec.res.d, dec.d)
    /\ (dec.src = "raw" /\ dec.res.done
           /\ ~(dec.value.tag = "String"
                  \/ (dec.value.tag = "Ext" /\ dec.value.inner.tag = "String")))
          => ~dec.res.ok

\* -1.20 (int -120, scale 2) through its serialized value
C18_Witness ==
    /\ dec.src = "decimal"
    /\ dec.d = BigDec(-120, 2)
    /\ dec.via = "serialize"
    /\ dec.value = ValExt("Decimal", ValString(<<"-", "1", ".", "2", "0">>))
    /\ dec.res.done /\ dec.res.ok
    /\ dec.res.d = BigDec(-120, 2)

(***************************************************************************)
(* The text row decoder on an exhausted buffer (SpecRow).                  *)
(***************************************************************************)
\* Walking the row as the wire format defines it: TRUE when the buffer ends
\* at a column boundary while columns are still to be decoded (fewer encoded
\* cells than columns; the empty buffer with one column is the first case).
RECURSIVE ExhaustedBeforeColumn(_, _, _)
ExhaustedBeforeColumn(buf, pos, k) ==
    IF k = 0 THEN FALSE
    ELSE IF pos >= Len(buf) THEN TRUE
    ELSE IF buf[pos + 1] = NullMarker
         THEN ExhaustedBeforeColumn(buf, pos + 1, k - 1)
    ELSE LET r == get_uint_lenenc(buf, pos)
         IN  IF ~r.ok \/ r.val > Len(buf) - r.next THEN FALSE
             ELSE ExhaustedBeforeColumn(buf, r.next + r.val, k - 1)

\* C21: decode_with ends with a Row or a Protocol error; when the buffer is
\* exhausted before every column has been decoded it returns an error and
\* reads no byte at or past the end of the buffer (it does not panic).
C21_ExhaustedBufferIsError ==
    (rowOut.kind # "Pending"
        /\ ExhaustedBeforeColumn(rowIn.buf, 0, rowIn.ncols)) =>
        rowOut.kind = "Protocol"

(***************************************************************************)
(* The frame of DateTime::encode (SpecTemporal).                           *)
(***************************************************************************)
\* C22: DateTime::encode only appends: the bytes the buffer held before the
\* call are still there, unchanged and at the same index; the returned size
\* is the number of bytes appended, 1 + the length byte written (5, 8, 12).
C22_EncodeOnlyAppends ==
    (tIn.op = "datetime" /\ tEnc.done) =>
        /\ Len(tEnc.buf) > Len(tIn.pre)
        /\ \A i \in 1..Len(tIn.pre) : tEnc.buf[i] = tIn.pre[i]
        /\ tEnc.size = Len(tEnc.buf) - Len(tIn.pre)
        /\ tEnc.size = 1 + tEnc.buf[Len(tIn.pre) + 1]
        /\ tEnc.size \in {5, 8, 12}

\* a buffer that already holds the byte 4 (the look of a date length byte),
\* a datetime with microseconds: 12 bytes appended behind it
C22_Witness ==
    /\ tIn.op = "datetime"
    /\ tEnc.done
    /\ tIn.pre = <<4>>
    /\ tIn.dt.nano = 6000
    /\ tEnc.buf[1] = 4
    /\ tEnc.buf[2] = 11
    /\ Len(tEnc.buf) = 13
    /\ tEnc.size = 12

(***************************************************************************)
(* Failures inside Statements::get (SpecStmt).                             *)
(***************************************************************************)
\* a step that is a call of Statements::get which returned an error
GetFailed ==
    /\ cstate.pc = "live"
    /\ cstate'.pc = "live"
    /\ cstate'.calls = cstate.calls + 1
    /\ ~cstate'.last.ok

\* C23: when preparing or resetting a statement fails inside
\* Statements::get, the call returns that error and the store is as it was:
\* the previous scratch statement is still in the scratch slot, the set of
\* cached SQL strings is unchanged (nothing inserted, nothing evicted) and
\* no statement has been released.
C23_FailedGetLeavesStore ==
    [][GetFailed =>
          /\ cstate'.last.kind \in {"temp", "miss", "hit"}
          /\ cstate'.st.temp = cstate.st.temp
          /\ CacheKeys(cstate'.st.cached) = CacheKeys(cstate.st.cached)
          /\ CacheIds(cstate'.st.cached) = CacheIds(cstate.st.cached)
          /\ Len(cstate'.st.cached) = Len(cstate.st.cached)
          /\ cstate'.released = cstate.released
          /\ cstate'.last.kind \in {"temp", "miss"} => cstate'.st = cstate.st
      ]_vars

\* a failed non-persistent call behind a successful one, next to a cached
\* statement: the earlier scratch statement is still in its slot
C23_Witness ==
    /\ cstate.pc = "live"
    /\ cstate.last.kind = "temp"
    /\ ~cstate.last.ok
    /\ ~cstate.last.persistent
    /\ cstate.st.capacity >= 1
    /\ Len(cstate.st.temp) = 1
    /\ cstate.st.temp[1].id \notin cstate.released
    /\ Len(cstate.st.cached) = 1
    /\ cstate.calls = 3

=============================================================================
